---- MODULE Spec2Model ----
(***************************************************************************)
(* A model of general_robotics_toolbox.py: the Robot constructor, fwdkin,  *)
(* robotjacobian and the Paden-Kahan subproblems 0..3.                     *)
(*                                                                         *)
(* Numbers are exact integers.  Vectors are tuples of integers, a 3 x 3    *)
(* matrix is a tuple of three rows, a numpy 2-d array that is handled      *)
(* column by column is a record [rows, cols].  Joint angles are counted in *)
(* quarter turns (1 = pi/2), for which sin and cos are exactly 0, 1 or -1, *)
(* so that rot() stays inside the integers.  Indices i, j keep the zero    *)
(* based values of the code; the k-th element of a Python sequence s is    *)
(* s[k+1] here.                                                            *)
(***************************************************************************)
EXTENDS Integers, Sequences, FiniteSets, TLC

\* ------------------------------------------------------------------ bounds
\* most columns of H, P and entries of joint_type, M offered to the constructor
MaxCols == 2
\* longest chain whose joint types are enumerated in full (axes z, offsets x)
MaxJoints == 3
\* longest chain whose axes and first offset are enumerated as well
MaxGeoJoints == 2
\* the coordinates of the vectors given to the subproblems are in -1..MaxCoord
MaxCoord == 1
\* the distances given to subproblem3 are in 0..MaxDist
MaxDist == 2

VARIABLES
    args,       \* the arguments of Robot(H, P, joint_type, joint_min, joint_max, M)
    robot,      \* the fields of the constructed Robot
    pc,         \* where the running call is
    fn,         \* the function called on the robot
    theta,      \* its joint vector
    i, j,       \* loop indices of fwdkin / robotjacobian
    R, p,       \* running rotation and position
    hi, pOi,    \* robotjacobian: rotated axes and positions per joint
    J,          \* robotjacobian: the Jacobian under assembly (sequence of columns)
    wrote,      \* robotjacobian: the columns of J assigned by the last loop step
    result,     \* what the call returned
    sfn,        \* the subproblem called
    sp, sq,     \* its vectors p and q
    sk, sk2,    \* its axes (k, or k1 and k2)
    sd,         \* the distance d of subproblem3
    srnd,       \* rounding: whether a dot product with a rounded axis that
                \* is 0 in exact arithmetic comes out below eps
    spc,        \* "call" before the subproblem ran, "done" after
    sres        \* what the subproblem did: its return value or its exception

kinvars == <<args, robot, pc, fn, theta, i, j, R, p, hi, pOi, J, wrote, result>>
subvars == <<sfn, sp, sq, sk, sk2, sd, srnd, spc, sres>>
vars == <<kinvars, subvars>>

\* ------------------------------------------------------------ Python None
None == [some |-> FALSE, val |-> <<>>]
Some(v) == [some |-> TRUE, val |-> v]

\* ---------------------------------------------------------- linear algebra
Zero3 == <<0, 0, 0>>
Identity3 == <<<<1, 0, 0>>, <<0, 1, 0>>, <<0, 0, 1>>>>

Dot(a, b) == a[1] * b[1] + a[2] * b[2] + a[3] * b[3]
Cross(a, b) == <<a[2] * b[3] - a[3] * b[2],
                 a[3] * b[1] - a[1] * b[3],
                 a[1] * b[2] - a[2] * b[1]>>
VAdd(a, b) == <<a[1] + b[1], a[2] + b[2], a[3] + b[3]>>
VSub(a, b) == <<a[1] - b[1], a[2] - b[2], a[3] - b[3]>>
Scale(s, a) == <<s * a[1], s * a[2], s * a[3]>>
MatVec(A, v) == <<Dot(A[1], v), Dot(A[2], v), Dot(A[3], v)>>
Col(A, c) == <<A[1][c], A[2][c], A[3][c]>>
MatMul(A, B) == [r \in 1..3 |-> [c \in 1..3 |-> Dot(A[r], Col(B, c))]]
MatAdd(A, B) == [r \in 1..3 |-> [c \in 1..3 |-> A[r][c] + B[r][c]]]
MatScale(s, A) == [r \in 1..3 |-> [c \in 1..3 |-> s * A[r][c]]]

\* math.sin / math.cos of a whole number of quarter turns
Sin(t) == LET q == t % 4 IN IF q = 1 THEN 1 ELSE IF q = 3 THEN -1 ELSE 0
Cos(t) == LET q == t % 4 IN IF q = 0 THEN 1 ELSE IF q = 2 THEN -1 ELSE 0

hat(k) == <<<<0, -k[3], k[2]>>,
            <<k[3], 0, -k[1]>>,
            <<-k[2], k[1], 0>>>>

rot(k, t) ==
    LET khat == hat(k)
        khat2 == MatMul(khat, khat)
    IN MatAdd(MatAdd(Identity3, MatScale(Sin(t), khat)),
              MatScale(1 - Cos(t), khat2))

RECURSIVE SumSq(_)
SumSq(v) == IF v = <<>> THEN 0 ELSE v[1] * v[1] + SumSq(Tail(v))

\* ------------------------------------------------------- Robot.__init__
\* np.isclose(np.linalg.norm(H[:,i]), 1): the norm of an integer column is
\* the root of an integer, which is close to 1 only when that integer is 1.
AxesUnit(H) == \A c \in 1..Len(H.cols) : SumSq(H.cols[c]) = 1

TypesAllowed(joint_type) ==
    \A t \in 1..Len(joint_type) : joint_type[t] \in {0, 1, 2, 3}

RowsOK(H, P) == H.rows = 3 /\ P.rows = 3

\* mutant of CountsOK: the length of joint_type is not compared
CountsOK_noTypes(H, P, joint_type) == Len(H.cols) + 1 = Len(P.cols)

CountsOK(H, P, joint_type) ==
    /\ Len(H.cols) + 1 = Len(P.cols)
    /\ Len(H.cols) = Len(joint_type)

InertiaOK(H, M) ==
    M.some => /\ Len(M.val) = Len(H.cols)
              /\ \A m \in 1..Len(M.val) : M.val[m] = <<6, 6>>

RobotAsserts(a) ==
    /\ AxesUnit(a.H)
    /\ TypesAllowed(a.joint_type)
    /\ RowsOK(a.H, a.P)
    /\ CountsOK(a.H, a.P, a.joint_type)
    /\ InertiaOK(a.H, a.M)

RobotFields(a) ==
    LET both == a.joint_min.some /\ a.joint_max.some
    IN [H |-> a.H, P |-> a.P, joint_type |-> a.joint_type,
        joint_min |-> IF both THEN a.joint_min ELSE None,
        joint_max |-> IF both THEN a.joint_max ELSE None,
        M |-> a.M]

NoRobot ==
    [H |-> [rows |-> 0, cols |-> <<>>], P |-> [rows |-> 0, cols |-> <<>>],
     joint_type |-> <<>>, joint_min |-> None, joint_max |-> None, M |-> None]

RobotInit ==
    /\ pc = "new"
    /\ IF RobotAsserts(args)
          THEN robot' = RobotFields(args) /\ pc' = "ready"
          ELSE robot' = robot /\ pc' = "AssertionError"
    /\ UNCHANGED <<args, fn, theta, i, j, R, p, hi, pOi, J, wrote, result>>
    /\ UNCHANGED subvars

\* ------------------------------------------------------------- fwdkin
NJoints == Len(robot.joint_type)

LimitsConfigured(rb) == rb.joint_min.some /\ rb.joint_max.some

\* mutant of InLimits: only the upper limit is compared
InLimits_maxOnly(rb, th) == \A k \in 1..Len(th) : th[k] <= rb.joint_max.val[k]

\* np.greater_equal(theta, joint_min).all() and np.less_equal(theta, joint_max).all()
InLimits(rb, th) ==
    /\ \A k \in 1..Len(th) : th[k] >= rb.joint_min.val[k]
    /\ \A k \in 1..Len(th) : th[k] <= rb.joint_max.val[k]

JointsOutOfRange(rb, th) == LimitsConfigured(rb) /\ ~InLimits(rb, th)

\* mutant of fwdkinJoint: the offset is rotated by R as it was before joint k
fwdkinJoint_staleR(rb, th, k, Rk, pk) ==
    LET t == rb.joint_type[k + 1]
        h == rb.H.cols[k + 1]
        R1 == IF t = 0 \/ t = 2 THEN MatMul(Rk, rot(h, th[k + 1])) ELSE Rk
        p1 == IF t = 1 \/ t = 3 THEN VAdd(pk, Scale(th[k + 1], MatVec(Rk, h)))
              ELSE pk
    IN [R |-> R1, p |-> VAdd(p1, MatVec(Rk, rb.P.cols[k + 2]))]

\* one pass of the loop body of fwdkin for joint k (zero based)
fwdkinJoint(rb, th, k, Rk, pk) ==
    LET t == rb.joint_type[k + 1]
        h == rb.H.cols[k + 1]
        R1 == IF t = 0 \/ t = 2 THEN MatMul(Rk, rot(h, th[k + 1])) ELSE Rk
        p1 == IF t = 1 \/ t = 3 THEN VAdd(pk, Scale(th[k + 1], MatVec(Rk, h)))
              ELSE pk
    IN [R |-> R1, p |-> VAdd(p1, MatVec(R1, rb.P.cols[k + 2]))]

NoResult == [kind |-> "none", R |-> Identity3, p |-> Zero3, J |-> <<>>]

ThetaPool == {0, 1}

ThetaSet(n) == [1..n -> ThetaPool]

fwdkinCall ==
    /\ pc = "ready"
    /\ \E th \in ThetaSet(NJoints) :
          /\ theta' = th
          /\ fn' = "fwdkin"
          /\ IF JointsOutOfRange(robot, th)
                THEN pc' = "OutOfRange" /\ UNCHANGED <<p, R, i>>
                ELSE /\ p' = robot.P.cols[1]
                     /\ R' = Identity3
                     /\ i' = 0
                     /\ pc' = "fk_loop"
    /\ UNCHANGED <<args, robot, j, hi, pOi, J, wrote, result>>
    /\ UNCHANGED subvars

fwdkinStep ==
    /\ pc = "fk_loop"
    /\ i < NJoints
    /\ LET s == fwdkinJoint(robot, theta, i, R, p)
       IN R' = s.R /\ p' = s.p
    /\ i' = i + 1
    /\ UNCHANGED <<args, robot, pc, fn, theta, j, hi, pOi, J, wrote, result>>
    /\ UNCHANGED subvars

fwdkinReturn ==
    /\ pc = "fk_loop"
    /\ i >= NJoints
    /\ result' = [kind |-> "Pose", R |-> R, p |-> p, J |-> <<>>]
    /\ pc' = "done"
    /\ UNCHANGED <<args, robot, fn, theta, i, j, R, p, hi, pOi, J, wrote>>
    /\ UNCHANGED subvars

\* -------------------------------------------------------- robotjacobian
Zero6 == <<0, 0, 0, 0, 0, 0>>
Zeros(n, v) == [k \in 1..n |-> v]
Top(c) == <<c[1], c[2], c[3]>>
Bottom(c) == <<c[4], c[5], c[6]>>

\* the loop body of the first pass of robotjacobian for joint k (zero based)
jacobianJoint(rb, th, k, Rk, pk) ==
    LET t == rb.joint_type[k + 1]
        h == rb.H.cols[k + 1]
        R1 == IF t = 0 \/ t = 2 THEN MatMul(Rk, rot(h, th[k + 1])) ELSE Rk
        p1 == IF t = 1 \/ t = 3 THEN VAdd(pk, Scale(th[k + 1], MatVec(Rk, h)))
              ELSE pk
    IN [R |-> R1, p |-> VAdd(p1, MatVec(R1, rb.P.cols[k + 2])),
        h |-> MatVec(R1, h)]

robotjacobianCall ==
    /\ pc = "ready"
    /\ \E th \in ThetaSet(NJoints) :
          /\ theta' = th
          /\ fn' = "robotjacobian"
          /\ IF JointsOutOfRange(robot, th)
                THEN pc' = "OutOfRange" /\ UNCHANGED <<p, R, i, hi, pOi>>
                ELSE /\ hi' = Zeros(Len(robot.H.cols), Zero3)
                     /\ p' = robot.P.cols[1]
                     /\ R' = Identity3
                     /\ pOi' = [Zeros(Len(robot.P.cols), Zero3)
                                   EXCEPT ![1] = robot.P.cols[1]]
                     /\ i' = 0
                     /\ pc' = "jac_pass"
    /\ UNCHANGED <<args, robot, j, J, wrote, result>>
    /\ UNCHANGED subvars

jacobianPassStep ==
    /\ pc = "jac_pass"
    /\ i < NJoints
    /\ LET s == jacobianJoint(robot, theta, i, R, p)
       IN /\ R' = s.R
          /\ p' = s.p
          /\ pOi' = [pOi EXCEPT ![i + 2] = s.p]
          /\ hi' = [hi EXCEPT ![i + 1] = s.h]
    /\ i' = i + 1
    /\ UNCHANGED <<args, robot, pc, fn, theta, j, J, wrote, result>>
    /\ UNCHANGED subvars

jacobianPassEnd ==
    /\ pc = "jac_pass"
    /\ i >= NJoints
    /\ J' = Zeros(NJoints, Zero6)
    /\ wrote' = {}
    /\ i' = 0
    /\ j' = 0
    /\ pc' = "jac_cols"
    /\ UNCHANGED <<args, robot, fn, theta, R, p, hi, pOi, result>>
    /\ UNCHANGED subvars

pOT == pOi[NJoints + 1]

\* J[0:3,[c]] = top and J[3:6,[c]] = bottom, c zero based
SetTop(Jm, c, top) == [Jm EXCEPT ![c + 1] = top \o Bottom(Jm[c + 1])]
SetBottom(Jm, c, bottom) == [Jm EXCEPT ![c + 1] = Top(Jm[c + 1]) \o bottom]

ColumnLoop == pc = "jac_cols" /\ i < NJoints

IndexError ==
    /\ pc' = "IndexError"
    /\ UNCHANGED <<i, j, J, wrote>>

jacobianRotary ==
    /\ ColumnLoop
    /\ robot.joint_type[i + 1] = 0
    /\ IF j < Len(J)
          THEN /\ J' = SetBottom(SetTop(J, j, hi[i + 1]), j,
                                 MatVec(hat(hi[i + 1]), VSub(pOT, pOi[i + 1])))
               /\ wrote' = {j}
               /\ i' = i + 1
               /\ j' = j + 1
               /\ pc' = pc
          ELSE IndexError
    /\ UNCHANGED <<args, robot, fn, theta, R, p, hi, pOi, result>>
    /\ UNCHANGED subvars

jacobianPrismatic ==
    /\ ColumnLoop
    /\ robot.joint_type[i + 1] = 1
    /\ IF j < Len(J)
          THEN /\ J' = SetBottom(J, j, hi[i + 1])
               /\ wrote' = {j}
               /\ i' = i + 1
               /\ j' = j + 1
               /\ pc' = pc
          ELSE IndexError
    /\ UNCHANGED <<args, robot, fn, theta, R, p, hi, pOi, result>>
    /\ UNCHANGED subvars

\* mutant of jacobianMobile: the branch advances i by 1 + 1 and j by 0 + 1 and
\* writes column j only
jacobianMobile_pair ==
    /\ ColumnLoop
    /\ robot.joint_type[i + 1] = 3
    /\ IF i + 2 < Len(hi) /\ i + 2 < Len(theta) /\ i + 2 < Len(pOi)
          /\ j + 1 < Len(J)
          THEN /\ LET J1 == SetBottom(J, j,
                               MatVec(rot(hi[i + 3], theta[i + 3]), hi[i + 1]))
                  IN J' = SubSeq(J1, 1, Len(J1) - 1)
               /\ wrote' = {j}
               /\ i' = (i + 1) + 1
               /\ j' = j + 1
               /\ pc' = pc
          ELSE IndexError
    /\ UNCHANGED <<args, robot, fn, theta, R, p, hi, pOi, result>>
    /\ UNCHANGED subvars

\* joint type 3: reads joint i+2, writes columns j and j+1, drops the last
\* column, and advances i by 2 + 1 and j by 1 + 1
jacobianMobile ==
    /\ ColumnLoop
    /\ robot.joint_type[i + 1] = 3
    /\ IF i + 2 < Len(hi) /\ i + 2 < Len(theta) /\ i + 2 < Len(pOi)
          /\ j + 1 < Len(J)
          THEN /\ LET J1 == SetBottom(J, j,
                               MatVec(rot(hi[i + 3], theta[i + 3]), hi[i + 1]))
                      J2 == SetTop(J1, j + 1, hi[i + 3])
                      J3 == SetBottom(J2, j + 1,
                               MatVec(hat(hi[i + 3]), VSub(pOT, pOi[i + 3])))
                  IN J' = SubSeq(J3, 1, Len(J3) - 1)
               /\ wrote' = {j, j + 1}
               /\ i' = (i + 2) + 1
               /\ j' = (j + 1) + 1
               /\ pc' = pc
          ELSE IndexError
    /\ UNCHANGED <<args, robot, fn, theta, R, p, hi, pOi, result>>
    /\ UNCHANGED subvars

\* joint type 2 matches no branch of the column loop
jacobianPassive ==
    /\ ColumnLoop
    /\ robot.joint_type[i + 1] = 2
    /\ i' = i + 1
    /\ j' = j + 1
    /\ wrote' = {}
    /\ UNCHANGED <<args, robot, pc, fn, theta, R, p, hi, pOi, J, result>>
    /\ UNCHANGED subvars

robotjacobianReturn ==
    /\ pc = "jac_cols"
    /\ i >= NJoints
    /\ result' = [kind |-> "J", R |-> Identity3, p |-> Zero3, J |-> J]
    /\ pc' = "done"
    /\ UNCHANGED <<args, robot, fn, theta, i, j, R, p, hi, pOi, J, wrote>>
    /\ UNCHANGED subvars

\* ------------------------------------------------------------ inputs
AxisZ == <<0, 0, 1>>
AxisX == <<1, 0, 0>>

Array(r, c) == [rows |-> r, cols |-> c]

Seqs(S, n) == UNION {[1..m -> S] : m \in 0..n}

\* constructor arguments, well formed or not
RobotHs ==
    {Array(3, c) : c \in Seqs({AxisZ, <<1, 1, 0>>}, MaxCols)}
    \cup {Array(2, c) : c \in Seqs({<<1, 0>>}, MaxCols)}

RobotPs ==
    {Array(r, [k \in 1..n |-> [x \in 1..r |-> 0]]) :
        r \in {2, 3}, n \in 0..(MaxCols + 1)}

RobotTypes == Seqs(0..4, MaxCols)

RobotMs == {None} \cup {Some(m) : m \in Seqs({<<6, 6>>, <<6, 3>>}, MaxCols)}

RobotLimits ==
    {<<None, None>>, <<Some(<<>>), None>>, <<None, Some(<<>>)>>,
     <<Some(<<>>), Some(<<>>)>>}

\* joint limits offered to the kinematics: none, [0, 0] and [1, 1] per joint
LimitPool(n) ==
    {<<None, None>>,
     <<Some(Zeros(n, 0)), Some(Zeros(n, 0))>>,
     <<Some(Zeros(n, 1)), Some(Zeros(n, 1))>>}

\* chains of every joint-type sequence, axes z and offsets x
StructArgs ==
    {[H |-> Array(3, Zeros(Len(t), AxisZ)),
      P |-> Array(3, Zeros(Len(t) + 1, AxisX)),
      joint_type |-> t, joint_min |-> l[1], joint_max |-> l[2], M |-> None] :
        t \in Seqs(0..3, MaxJoints), l \in UNION {LimitPool(n) : n \in 0..MaxJoints}}

\* short chains with axes in {z, x} and the base offset in {0, x}
GeoArgs ==
    UNION {
      {[H |-> Array(3, h),
        P |-> Array(3, [k \in 1..(n + 1) |-> IF k = 1 THEN p0 ELSE AxisX]),
        joint_type |-> t, joint_min |-> l[1], joint_max |-> l[2], M |-> None] :
          h \in [1..n -> {AxisZ, AxisX}], p0 \in {Zero3, AxisX},
          t \in [1..n -> 0..3], l \in LimitPool(n)} : n \in 0..MaxGeoJoints}

KinArgs ==
    {a \in StructArgs \cup GeoArgs :
        a.joint_min.some => Len(a.joint_min.val) = Len(a.joint_type)}

InitCall ==
    /\ robot = NoRobot
    /\ pc = "new"
    /\ fn = "none"
    /\ theta = <<>>
    /\ i = 0
    /\ j = 0
    /\ R = Identity3
    /\ p = Zero3
    /\ hi = <<>>
    /\ pOi = <<>>
    /\ J = <<>>
    /\ wrote = {}
    /\ result = NoResult

\* ------------------------------------------- values of the subproblems
\* The subproblems are computed in exact arithmetic.  A vector is a record:
\* kind "int" is the integer vector n, kind "unit" is n / norm(n), kind "nan"
\* is a vector of NaNs (the quotient 0 / 0).  The inputs are chosen so that
\* every square root the branch conditions depend on is that of a perfect
\* square, which floating point takes exactly.
NaNV == [kind |-> "nan", n |-> Zero3]
IntV(n) == [kind |-> "int", n |-> n]

Abs(x) == IF x < 0 THEN -x ELSE x
Sign(x) == IF x < 0 THEN -1 ELSE IF x > 0 THEN 1 ELSE 0

RECURSIVE GCD(_, _)
GCD(a, b) == IF b = 0 THEN a ELSE GCD(b, a % b)

IsSquare(n) == n >= 0 /\ \E r \in 0..n : r * r = n
\* math.sqrt / np.sqrt of a perfect square
ISqrt(n) == CHOOSE r \in 0..n : r * r = n
\* a quotient that is a whole number
Div(n, d) == CHOOSE x \in (-Abs(n))..Abs(n) : x * d = n

\* np.abs(x) < eps, for a whole number x
TinyAbs(x) == x = 0

\* v / norm(v)
Normalize(V) ==
    IF V.kind = "nan" \/ V.n = Zero3 THEN NaNV ELSE [kind |-> "unit", n |-> V.n]

\* norm(v) squared
NormSq(V) == IF V.kind = "unit" THEN 1 ELSE SumSq(V.n)

SameDirection(a, b) == Cross(a, b) = Zero3 /\ Dot(a, b) > 0

\* norm(p - q) < sqrt(eps): p and q are the same vector
Close(P, Q) ==
    /\ P.kind # "nan" /\ Q.kind # "nan"
    /\ NormSq(P) = NormSq(Q)
    /\ (P.n = Q.n \/ SameDirection(P.n, Q.n))

AxisAligned(n) == Cardinality({c \in 1..3 : n[c] # 0}) <= 1

\* the components of K are floating point numbers without rounding error
Unrounded(K) == K.kind = "int" \/ AxisAligned(K.n)

\* np.dot(k, v) < eps; a comparison with NaN is false.  A product that is 0
\* in exact arithmetic is computed as 0 when k is unrounded, and as a value
\* of the size of eps, on either side of it, when k = c / norm(c) is rounded.
BelowEps(K, V) ==
    /\ K.kind # "nan" /\ V.kind # "nan"
    /\ \/ Dot(K.n, V.n) < 0
       \/ Dot(K.n, V.n) = 0 /\ (Unrounded(K) \/ srnd)

\* v - dot(v, k) * k for a unit vector k = K.n / norm(K.n), up to a positive
\* factor: only its direction and whether it is zero are used
Project(V, K) ==
    IF V.kind = "nan" \/ K.kind = "nan" THEN NaNV
    ELSE IntV(VSub(Scale(Dot(K.n, K.n), V.n), Scale(Dot(V.n, K.n), K.n)))

\* An angle in [0, pi] is kept as the sign of its cosine and the reduced
\* ratio cos^2 : sin^2; neg tells that it was negated.
NaNAngle == [kind |-> "nan", sc |-> 0, c2 |-> 0, s2 |-> 0, neg |-> FALSE]
Angle(c, s2) ==
    LET g == GCD(c * c, s2)
    IN [kind |-> "angle", sc |-> Sign(c), c2 |-> (c * c) \div g,
        s2 |-> s2 \div g, neg |-> FALSE]
ZeroAngle == Angle(1, 0)
PiAngle == Angle(-1, 0)
\* -theta; -0.0 equals 0.0
Negate(a) ==
    IF a.kind = "nan" \/ a = ZeroAngle THEN a ELSE [a EXCEPT !.neg = ~a.neg]

\* phi = arccos(num / den), added to (sgn = 1) or taken from (sgn = -1) theta
NoPhi == [sgn |-> 0, num |-> 1, den |-> 1]
ArcCos(sgn, num, den) ==
    LET g == GCD(Abs(num), den)
    IN [sgn |-> sgn, num |-> num \div g, den |-> den \div g]

\* what a call did
Raise == [kind |-> "AssertionError", angle |-> NaNAngle, list |-> <<>>,
          warn |-> FALSE]
Return(a, w) == [kind |-> "return", angle |-> a, list |-> <<>>, warn |-> w]
ReturnList(l, w) == [kind |-> "return", angle |-> NaNAngle, list |-> l, warn |-> w]
NoOutcome == [kind |-> "none", angle |-> NaNAngle, list |-> <<>>, warn |-> FALSE]

\* ------------------------------------------------------- subproblem0
\* mutant of subproblem0: the perpendicularity of p and q is not asserted
subproblem0_unchecked(P, Q, K) ==
    LET ep == Normalize(P)
        eq == Normalize(Q)
    IN IF ep.kind = "nan" \/ eq.kind = "nan" \/ K.kind = "nan"
       THEN Return(NaNAngle, FALSE)
       ELSE LET t == Angle(Dot(ep.n, eq.n), SumSq(Cross(ep.n, eq.n)))
            IN IF Dot(K.n, Cross(P.n, Q.n)) < 0
               THEN Return(Negate(t), FALSE)
               ELSE Return(t, FALSE)

subproblem0(P, Q, K) ==
    IF ~(BelowEps(K, P) /\ BelowEps(K, Q)) THEN Raise
    ELSE LET ep == Normalize(P)
             eq == Normalize(Q)
         IN IF ep.kind = "nan" \/ eq.kind = "nan"
            THEN Return(NaNAngle, FALSE)
            ELSE LET t == Angle(Dot(ep.n, eq.n), SumSq(Cross(ep.n, eq.n)))
                 IN IF Dot(K.n, Cross(P.n, Q.n)) < 0
                    THEN Return(Negate(t), FALSE)
                    ELSE Return(t, FALSE)

\* ------------------------------------------------------- subproblem1
\* np.abs(norm(p) - norm(q)) > norm(p) * 1e-2, on the squared norms
NormsDiffer(P, Q) ==
    \/ 10000 * NormSq(Q) > 10201 * NormSq(P)
    \/ 10000 * NormSq(Q) < 9801 * NormSq(P)

subproblem1(P, Q, K) ==
    IF Close(P, Q) THEN Return(ZeroAngle, FALSE)
    ELSE LET k == Normalize(K)
             epp == Normalize(Project(P, k))
             eqp == Normalize(Project(Q, k))
             r == subproblem0(epp, eqp, k)
         IN IF r.kind = "AssertionError" THEN r
            ELSE Return(r.angle, NormsDiffer(P, Q))

\* ------------------------------------------------------- subproblem2
Sub2a(vp, vq, k1, k2) ==
    LET k12 == Dot(k1, k2)
        pk == Dot(vp, k2)
        qk == Dot(vq, k1)
    IN <<Div(k12 * pk - qk, k12 * k12 - 1), Div(-pk + k12 * qk, k12 * k12 - 1)>>

Sub2Parallel(k1, k2) == TinyAbs(1 - Dot(k1, k2) * Dot(k1, k2))

\* bb, set to 0 when np.abs(bb) < eps
Sub2bb(vp, vq, k1, k2) ==
    LET a == Sub2a(vp, vq, k1, k2)
    IN Dot(vp, vp) - (a[1] * a[1] + a[2] * a[2]) - 2 * a[1] * a[2] * Dot(k1, k2)

Sub2gamma(vp, vq, k1, k2) ==
    Div(ISqrt(Sub2bb(vp, vq, k1, k2)), ISqrt(SumSq(Cross(k1, k2))))

\* np.dot(cm, np.hstack((a, g))) with cm = [k1 k2 k1 x k2]
Sub2c(vp, vq, k1, k2, g) ==
    LET a == Sub2a(vp, vq, k1, k2)
    IN VAdd(VAdd(Scale(a[1], k1), Scale(a[2], k2)), Scale(g, Cross(k1, k2)))

\* the pair (theta1, theta2) = (-t1, t2) of two subproblem1 calls, t2 made first
Sub2Pair(t1, t2) ==
    IF t2.kind = "AssertionError" \/ t1.kind = "AssertionError" THEN Raise
    ELSE ReturnList(<<<<Negate(t1.angle), t2.angle>>>>, t1.warn \/ t2.warn)

\* the tangent case, lines 516-520
Sub2Tangent(vp, vq, k1, k2) ==
    LET c1 == Sub2c(vp, vq, k1, k2, Sub2gamma(vp, vq, k1, k2))
    IN Sub2Pair(subproblem1(IntV(k1), IntV(vq), IntV(c1)),
                subproblem1(IntV(k2), IntV(vp), IntV(c1)))

\* the pair of lines 525-528 for the auxiliary vector c
Sub2Solution(vp, vq, k1, k2, c) ==
    Sub2Pair(subproblem1(IntV(vq), IntV(c), IntV(k1)),
             subproblem1(IntV(vp), IntV(c), IntV(k2)))

\* mutant of Sub2Two: the two solutions are returned in the other order
Sub2Two_swapped(vp, vq, k1, k2) ==
    LET g == Sub2gamma(vp, vq, k1, k2)
        s1 == Sub2Solution(vp, vq, k1, k2, Sub2c(vp, vq, k1, k2, g))
        s2 == Sub2Solution(vp, vq, k1, k2, Sub2c(vp, vq, k1, k2, -g))
    IN IF s1.kind = "AssertionError" \/ s2.kind = "AssertionError" THEN Raise
       ELSE ReturnList(s2.list \o s1.list, s1.warn \/ s2.warn)

\* the two solutions, lines 522-529
Sub2Two(vp, vq, k1, k2) ==
    LET g == Sub2gamma(vp, vq, k1, k2)
        s1 == Sub2Solution(vp, vq, k1, k2, Sub2c(vp, vq, k1, k2, g))
        s2 == Sub2Solution(vp, vq, k1, k2, Sub2c(vp, vq, k1, k2, -g))
    IN IF s1.kind = "AssertionError" \/ s2.kind = "AssertionError" THEN Raise
       ELSE ReturnList(s1.list \o s2.list, s1.warn \/ s2.warn)

subproblem2(vp, vq, k1, k2) ==
    IF Sub2Parallel(k1, k2) THEN ReturnList(<<>>, TRUE)
    ELSE IF Sub2bb(vp, vq, k1, k2) < 0 THEN ReturnList(<<>>, TRUE)
    ELSE IF TinyAbs(Sub2gamma(vp, vq, k1, k2)) THEN Sub2Tangent(vp, vq, k1, k2)
    ELSE Sub2Two(vp, vq, k1, k2)

\* ------------------------------------------------------- subproblem3
Sub3pp(v, k) == VSub(v, Scale(Dot(v, k), k))

Sub3dpsq(vp, vq, k, d) == d * d - Dot(k, VAdd(vp, vq)) * Dot(k, VAdd(vp, vq))

\* bb = Sub3num / Sub3den
Sub3num(vp, vq, k, d) ==
    -(SumSq(Sub3pp(vp, k)) + SumSq(Sub3pp(vq, k)) - Sub3dpsq(vp, vq, k, d))

Sub3den(vp, vq, k) == 2 * ISqrt(SumSq(Sub3pp(vp, k))) * ISqrt(SumSq(Sub3pp(vq, k)))

\* np.abs(num / den) > 1; x / 0 is inf for x # 0 and NaN for x = 0
AbsAboveOne(num, den) == IF den = 0 THEN num # 0 ELSE Abs(num) > den

\* np.abs(np.arccos(num / den)) > 0, for num / den in [-1, 1] or NaN
PhiPositive(num, den) == den # 0 /\ num < den

\* mutant of subproblem3: one solution at both ends, bb = 1 and bb = -1
subproblem3_bothEnds(vp, vq, k, d) ==
    LET num == Sub3num(vp, vq, k, d)
        den == Sub3den(vp, vq, k)
    IN IF Sub3dpsq(vp, vq, k, d) < 0 \/ AbsAboveOne(num, den)
       THEN ReturnList(<<>>, TRUE)
       ELSE LET r == subproblem1(Normalize(IntV(Sub3pp(vp, k))),
                                 Normalize(IntV(Sub3pp(vq, k))), IntV(k))
            IN IF r.kind = "AssertionError" THEN r
               ELSE IF PhiPositive(num, den) /\ num # -den
               THEN ReturnList(<<[theta |-> r.angle, phi |-> ArcCos(1, num, den)],
                                 [theta |-> r.angle, phi |-> ArcCos(-1, num, den)]>>,
                               r.warn)
               ELSE ReturnList(<<[theta |-> r.angle, phi |-> NoPhi]>>, r.warn)

subproblem3(vp, vq, k, d) ==
    LET num == Sub3num(vp, vq, k, d)
        den == Sub3den(vp, vq, k)
    IN IF Sub3dpsq(vp, vq, k, d) < 0 \/ AbsAboveOne(num, den)
       THEN ReturnList(<<>>, TRUE)
       ELSE LET r == subproblem1(Normalize(IntV(Sub3pp(vp, k))),
                                 Normalize(IntV(Sub3pp(vq, k))), IntV(k))
            IN IF r.kind = "AssertionError" THEN r
               ELSE IF PhiPositive(num, den)
               THEN ReturnList(<<[theta |-> r.angle, phi |-> ArcCos(1, num, den)],
                                 [theta |-> r.angle, phi |-> ArcCos(-1, num, den)]>>,
                               r.warn)
               ELSE ReturnList(<<[theta |-> r.angle, phi |-> NoPhi]>>, r.warn)

\* ------------------------------------------------ calls of the subproblems
Subproblem0Call ==
    /\ spc = "call"
    /\ sfn = "subproblem0"
    /\ sres' = subproblem0(IntV(sp), IntV(sq), IntV(sk))
    /\ spc' = "done"
    /\ UNCHANGED <<sfn, sp, sq, sk, sk2, sd, srnd>>
    /\ UNCHANGED kinvars

Subproblem1Call ==
    /\ spc = "call"
    /\ sfn = "subproblem1"
    /\ sres' = subproblem1(IntV(sp), IntV(sq), IntV(sk))
    /\ spc' = "done"
    /\ UNCHANGED <<sfn, sp, sq, sk, sk2, sd, srnd>>
    /\ UNCHANGED kinvars

Subproblem2Call ==
    /\ spc = "call"
    /\ sfn = "subproblem2"
    /\ sres' = subproblem2(sp, sq, sk, sk2)
    /\ spc' = "done"
    /\ UNCHANGED <<sfn, sp, sq, sk, sk2, sd, srnd>>
    /\ UNCHANGED kinvars

Subproblem3Call ==
    /\ spc = "call"
    /\ sfn = "subproblem3"
    /\ sres' = subproblem3(sp, sq, sk, sd)
    /\ spc' = "done"
    /\ UNCHANGED <<sfn, sp, sq, sk, sk2, sd, srnd>>
    /\ UNCHANGED kinvars

\* ------------------------------------------- inputs of the subproblems
Coords == (-1)..MaxCoord
Vecs == {<<x, y, z>> : x \in Coords, y \in Coords, z \in Coords}
AxisY == <<0, 1, 0>>
Axes == {AxisX, AxisY, AxisZ, <<0, 0, -1>>}

\* subproblem2 takes the root of bb: bb is a perfect square when it is taken
Sub2Exact(vp, vq, k1, k2) ==
    IF Sub2Parallel(k1, k2) THEN TRUE
    ELSE Sub2bb(vp, vq, k1, k2) < 0 \/ IsSquare(Sub2bb(vp, vq, k1, k2))

\* subproblem3 divides by norm(pp) * norm(qp): both are whole numbers
Sub3Exact(vp, vq, k) ==
    IsSquare(SumSq(Sub3pp(vp, k))) /\ IsSquare(SumSq(Sub3pp(vq, k)))

\* the calls whose outcome depends on rounding: the tangent case of
\* subproblem2 with an auxiliary vector c1 off the coordinate axes
Sub2Rounded(vp, vq, k1, k2) ==
    /\ ~Sub2Parallel(k1, k2)
    /\ Sub2bb(vp, vq, k1, k2) = 0
    /\ ~AxisAligned(Sub2c(vp, vq, k1, k2, 0))

SubFns == {"subproblem0", "subproblem1", "subproblem2", "subproblem3"}

\* the calls on which the arithmetic of the model is that of the code
SubExact(f, vp, vq, k1, k2) ==
    IF f = "subproblem2" THEN Sub2Exact(vp, vq, k1, k2)
    ELSE IF f = "subproblem3" THEN Sub3Exact(vp, vq, k1)
    ELSE TRUE

NoSubCall ==
    /\ sfn = "none"
    /\ sp = Zero3
    /\ sq = Zero3
    /\ sk = AxisZ
    /\ sk2 = AxisZ
    /\ sd = 0
    /\ srnd = TRUE
    /\ spc = "none"
    /\ sres = NoOutcome

\* ------------------------------------------------------ specifications
InitRobot ==
    /\ \E h \in RobotHs, q \in RobotPs, t \in RobotTypes, l \in RobotLimits,
          m \in RobotMs :
          args = [H |-> h, P |-> q, joint_type |-> t,
                  joint_min |-> l[1], joint_max |-> l[2], M |-> m]
    /\ InitCall
    /\ NoSubCall

NextRobot == RobotInit

SpecRobot == InitRobot /\ [][NextRobot]_vars

InitKin == args \in KinArgs /\ InitCall /\ NoSubCall

NextKin ==
    \/ RobotInit
    \/ fwdkinCall
    \/ fwdkinStep
    \/ fwdkinReturn
    \/ robotjacobianCall
    \/ jacobianPassStep
    \/ jacobianPassEnd
    \/ jacobianRotary
    \/ jacobianPrismatic
    \/ jacobianMobile
    \/ jacobianPassive
    \/ robotjacobianReturn

SpecKin == InitKin /\ [][NextKin]_vars

NoArgs ==
    [H |-> Array(3, <<>>), P |-> Array(3, <<Zero3>>), joint_type |-> <<>>,
     joint_min |-> None, joint_max |-> None, M |-> None]

InitSub ==
    /\ args = NoArgs
    /\ InitCall
    /\ sfn \in SubFns
    /\ sp \in Vecs
    /\ sq \in Vecs
    /\ sk \in Axes
    /\ sk2 \in IF sfn = "subproblem2" THEN Axes ELSE {sk}
    /\ sd \in IF sfn = "subproblem3" THEN 0..MaxDist ELSE {0}
    /\ SubExact(sfn, sp, sq, sk, sk2)
    /\ srnd \in IF sfn = "subproblem2" /\ Sub2Rounded(sp, sq, sk, sk2)
                THEN BOOLEAN ELSE {TRUE}
    /\ spc = "call"
    /\ sres = NoOutcome

NextSub ==
    \/ Subproblem0Call
    \/ Subproblem1Call
    \/ Subproblem2Call
    \/ Subproblem3Call

SpecSub == InitSub /\ [][NextSub]_vars

\* =================================================================
\* Properties of the constructor (SpecRobot)
\* =================================================================
C4_CountsBad ==
    ~(/\ Len(args.H.cols) = Len(args.joint_type)
      /\ Len(args.joint_type) = Len(args.P.cols) - 1)
C4_AxisBad == \E c \in 1..Len(args.H.cols) : SumSq(args.H.cols[c]) # 1
C4_TypeBad == \E t \in 1..Len(args.joint_type) : args.joint_type[t] \notin 0..3
C4_InertiaBad ==
    /\ args.M.some
    /\ \/ Len(args.M.val) # Len(args.H.cols)
       \/ \E m \in 1..Len(args.M.val) : args.M.val[m] # <<6, 6>>
C4_Bad == C4_CountsBad \/ C4_AxisBad \/ C4_TypeBad \/ C4_InertiaBad
C4_ThreeSpace == args.H.rows = 3 /\ args.P.rows = 3

\* C4: once the constructor has run, it has failed with the assertion error
\* and produced no Robot whenever the counts of axes, joint types and offsets
\* are inconsistent, an axis is not unit-norm, a joint type is outside
\* {0,1,2,3}, or M is given with the wrong count or a shape other than 6 x 6;
\* and a model of 3-vectors (H and P with three rows, as the data model has
\* them) that violates none of these is accepted, its fields stored.
C4_ConstructorValidates ==
    pc # "new" =>
        /\ C4_Bad => pc = "AssertionError" /\ robot = NoRobot
        /\ (~C4_Bad /\ C4_ThreeSpace) =>
              /\ pc = "ready"
              /\ robot.H = args.H /\ robot.P = args.P
              /\ robot.joint_type = args.joint_type /\ robot.M = args.M

\* a constructor call rejected for its inertia matrices alone
C4_Witness ==
    /\ pc = "AssertionError"
    /\ C4_InertiaBad
    /\ ~C4_CountsBad /\ ~C4_AxisBad /\ ~C4_TypeBad /\ C4_ThreeSpace
    /\ Len(args.H.cols) >= 1

\* =================================================================
\* Properties of fwdkin and robotjacobian (SpecKin)
\* =================================================================
C1_LimitsGiven == args.joint_min.some /\ args.joint_max.some
C1_Outside ==
    \E k \in 1..Len(theta) :
        theta[k] < args.joint_min.val[k] \/ theta[k] > args.joint_max.val[k]

\* C1: a call of fwdkin or robotjacobian on a model with joint limits and a
\* joint vector with a component outside [joint_min, joint_max] has failed
\* with the out-of-range error, with no accumulation step run (R, p, i, hi,
\* pOi, J untouched) and nothing returned; a call whose joint vector is
\* within the limits (bounds included) has not failed on the limit check.
C1_LimitCheck ==
    fn # "none" =>
        /\ (C1_LimitsGiven /\ C1_Outside) =>
              /\ pc = "OutOfRange"
              /\ result = NoResult
              /\ R = Identity3 /\ p = Zero3 /\ i = 0
              /\ hi = <<>> /\ pOi = <<>> /\ J = <<>>
        /\ ~(C1_LimitsGiven /\ C1_Outside) => pc # "OutOfRange"

\* robotjacobian refused a two-joint vector with exactly one component outside
C1_Witness ==
    /\ fn = "robotjacobian"
    /\ pc = "OutOfRange"
    /\ Len(theta) = 2
    /\ Cardinality({k \in 1..2 : theta[k] < args.joint_min.val[k]
                                   \/ theta[k] > args.joint_max.val[k]}) = 1

\* the recurrence of the claim, over the constructor's arguments
RECURSIVE C3_R(_)
C3_R(n) ==
    IF n = 0 THEN Identity3
    ELSE IF args.joint_type[n] \in {0, 2}
         THEN MatMul(C3_R(n - 1), rot(args.H.cols[n], theta[n]))
         ELSE C3_R(n - 1)
RECURSIVE C3_p(_)
C3_p(n) ==
    IF n = 0 THEN args.P.cols[1]
    ELSE VAdd(VAdd(C3_p(n - 1),
                   IF args.joint_type[n] \in {1, 3}
                   THEN Scale(theta[n], MatVec(C3_R(n), args.H.cols[n]))
                   ELSE Zero3),
              MatVec(C3_R(n), args.P.cols[n + 1]))

C3_Example ==
    /\ args.H.cols = <<AxisZ, AxisZ>>
    /\ args.P.cols = <<Zero3, AxisX, AxisX>>
    /\ args.joint_type = <<0, 0>>
    /\ theta = <<0, 1>>

\* C3: the pose fwdkin returns is the one of the recurrence (R from the
\* identity, p from offsets[0]; types 0 and 2 right-multiply R by
\* rot(axes[i], theta[i]), types 1 and 3 add theta[i]*R*axes[i] to p, then p
\* gains R*offsets[i+1] with the updated R); for the planar two-link example
\* with theta = [0, pi/2] it is p = [1,1,0] and R = Rot(z, pi/2).
C3_FwdkinPose ==
    (fn = "fwdkin" /\ pc = "done") =>
        /\ result.kind = "Pose"
        /\ result.R = C3_R(Len(theta))
        /\ result.p = C3_p(Len(theta))
        /\ C3_Example =>
              /\ result.p = <<1, 1, 0>>
              /\ result.R = <<<<0, -1, 0>>, <<1, 0, 0>>, <<0, 0, 1>>>>

\* fwdkin has returned the pose of the planar two-link example
C3_Witness ==
    /\ fn = "fwdkin"
    /\ pc = "done"
    /\ C3_Example
    /\ result.p = <<1, 1, 0>>

C8_Type == robot.joint_type[i + 1]
C8_Continues == pc' = "jac_cols"

\* C8 as stated: a completed pass through the mobile branch advances the
\* joint index by 2 and writes one column; a rotary or prismatic joint
\* advances it by 1 and writes one column.
C8_PairConsumesTwo ==
    [][ColumnLoop =>
          /\ (C8_Type = 3 /\ C8_Continues) =>
                i' = i + 2 /\ Cardinality(wrote') = 1
          /\ (C8_Type \in {0, 1} /\ C8_Continues) =>
                i' = i + 1 /\ Cardinality(wrote') = 1]_vars

\* C8 as the code has it: a pass through the mobile branch at joint i either
\* fails with an index error (i + 2 is no joint index) or advances the joint
\* index by 3 and the column index by 2, writes the two columns j and j+1 and
\* drops the last column of J; a rotary or prismatic joint advances both
\* indices by 1, writes column j and keeps the width of J.
C8_MobileConsumesThree ==
    [][ColumnLoop =>
          /\ (C8_Type = 3 /\ i + 2 >= NJoints) => pc' = "IndexError"
          /\ (C8_Type = 3 /\ C8_Continues) =>
                /\ i' = i + 3 /\ j' = j + 2
                /\ wrote' = {j, j + 1}
                /\ Len(J') = Len(J) - 1
          /\ C8_Type \in {0, 1} =>
                /\ C8_Continues
                /\ i' = i + 1 /\ j' = j + 1
                /\ wrote' = {j}
                /\ Len(J') = Len(J)]_vars

\* the column loop has just passed through the mobile branch at joint 0
C8_Witness ==
    /\ pc = "jac_cols"
    /\ NJoints >= 3
    /\ robot.joint_type[1] = 3
    /\ i = 3 /\ j = 2
    /\ wrote = {0, 1}
    /\ Len(J) = NJoints - 1

\* C9: robotjacobian, called on an accepted model with a joint vector within
\* the limits, never fails with an index error.
C9_NoIndexError ==
    (fn = "robotjacobian" /\ robot = RobotFields(args)) => pc # "IndexError"

C2_NoMobile == \A k \in 1..NJoints : robot.joint_type[k] \in {0, 1}
C2_OnePair ==
    /\ Cardinality({k \in 1..NJoints : robot.joint_type[k] = 3}) = 1
    /\ Cardinality({k \in 1..NJoints : robot.joint_type[k] = 2}) = 1
    /\ \E k \in 1..(NJoints - 1) :
          {robot.joint_type[k], robot.joint_type[k + 1]} = {2, 3}

\* C2: a call of robotjacobian that got past the limit check ends by
\* returning a matrix of 6 rows and N columns for a chain without mobile
\* joints, and N - 1 columns for a chain with exactly one adjacent mobile
\* rotational/translational pair.
C2_JacobianShape ==
    (fn = "robotjacobian" /\ pc \in {"done", "IndexError"}) =>
        /\ C2_NoMobile =>
              /\ pc = "done"
              /\ Len(result.J) = NJoints
              /\ \A c \in 1..Len(result.J) : Len(result.J[c]) = 6
        /\ C2_OnePair =>
              /\ pc = "done"
              /\ Len(result.J) = NJoints - 1
              /\ \A c \in 1..Len(result.J) : Len(result.J[c]) = 6

\* =================================================================
\* Properties of the subproblems (SpecSub)
\* =================================================================
C5_Perpendicular == Dot(sk, sp) <= 0 /\ Dot(sk, sq) <= 0
C5_Degenerate ==
    \/ /\ sfn = "subproblem2"
       /\ \/ Cross(sk, sk2) = Zero3
          \/ Sub2bb(sp, sq, sk, sk2) < 0
    \/ /\ sfn = "subproblem3"
       /\ \/ Sub3dpsq(sp, sq, sk, sd) < 0
          \/ AbsAboveOne(Sub3num(sp, sq, sk, sd), Sub3den(sp, sq, sk))

\* C5 as stated: no call of subproblem0, subproblem1, subproblem2 or
\* subproblem3 raises; every call returns a value.
C5_NeverRaises == spc = "done" => sres.kind = "return"

\* C5, amended: parallel axes and a negative discriminant in subproblem2, and
\* an unreachable distance in subproblem3, return the empty list with a
\* warning; subproblem0 raises an assertion error exactly when the product of
\* k with p or with q is not below eps, and returns an angle otherwise.
C5_RaisesOnlyOnAssertion ==
    spc = "done" =>
        /\ sres.kind \in {"return", "AssertionError"}
        /\ C5_Degenerate => sres = ReturnList(<<>>, TRUE)
        /\ sfn = "subproblem0" =>
              /\ sres.kind = "AssertionError" <=> ~C5_Perpendicular
              /\ sres.kind = "return" => sres.list = <<>> /\ ~sres.warn

C5_Witness ==
    /\ spc = "done"
    /\ sfn = "subproblem0"
    /\ Dot(sk, sp) > 0
    /\ sp # Zero3 /\ sq # Zero3
    /\ sres.kind = "AssertionError"

C6_num == Sub3num(sp, sq, sk, sd)
C6_den == Sub3den(sp, sq, sk)
C6_Empty == Sub3dpsq(sp, sq, sk, sd) < 0 \/ AbsAboveOne(C6_num, C6_den)
C6_Returned == spc = "done" /\ sfn = "subproblem3" /\ sres.kind = "return"
C6_TwoAround(l, num, den) ==
    /\ Len(l) = 2
    /\ l[1].theta = l[2].theta
    /\ l[1].phi = ArcCos(1, num, den)
    /\ l[2].phi = ArcCos(-1, num, den)

\* C6 as stated: a returning call of subproblem3 gives one solution when the
\* ratio bb is +1 or -1, two solutions theta + phi, theta - phi only when
\* -1 < bb < 1, and the empty list when d'^2 < 0 or |bb| > 1.
C6_OneAtBothEnds ==
    C6_Returned =>
        /\ C6_Empty => sres.list = <<>>
        /\ (~C6_Empty /\ C6_den # 0 /\ Abs(C6_num) = C6_den) =>
              Len(sres.list) = 1
        /\ Len(sres.list) = 2 =>
              /\ Abs(C6_num) < C6_den
              /\ C6_TwoAround(sres.list, C6_num, C6_den)

\* C6, amended: a returning call of subproblem3 gives one solution, theta,
\* exactly when bb = 1 (phi = 0); two solutions theta + phi, theta - phi when
\* -1 <= bb < 1, bb = -1 (phi = pi) included; and the empty list, with a
\* warning, when d'^2 < 0 or |bb| > 1.
C6_OneOnlyAtPlusOne ==
    C6_Returned =>
        /\ C6_Empty => sres = ReturnList(<<>>, TRUE)
        /\ (~C6_Empty /\ C6_num = C6_den) =>
              /\ Len(sres.list) = 1
              /\ sres.list[1].phi = NoPhi
        /\ (~C6_Empty /\ C6_num < C6_den) =>
              C6_TwoAround(sres.list, C6_num, C6_den)
        /\ ~C6_Empty => C6_den # 0 /\ C6_num <= C6_den

C6_Witness ==
    /\ C6_Returned
    /\ ~C6_Empty
    /\ C6_den # 0
    /\ C6_num = C6_den
    /\ Len(sres.list) = 1

C7_Parallel == Cross(sk, sk2) = Zero3
C7_Returned == spc = "done" /\ sfn = "subproblem2" /\ sres.kind = "return"
\* the pair -subproblem1(q, c, k1), subproblem1(p, c, k2) for gamma = g
C7_Pair(g) ==
    LET c == Sub2c(sp, sq, sk, sk2, g)
    IN <<Negate(subproblem1(IntV(sq), IntV(c), IntV(sk)).angle),
         subproblem1(IntV(sp), IntV(c), IntV(sk2)).angle>>

C10_Tangent ==
    /\ spc = "done"
    /\ sfn = "subproblem2"
    /\ ~C7_Parallel
    /\ Sub2bb(sp, sq, sk, sk2) = 0

\* C10: in the tangent case, gamma zero, subproblem2 does what the
\* two-solution case does for the auxiliary vector c computed with gamma:
\* it returns the one pair -subproblem1(q, c, k1), subproblem1(p, c, k2).
C10_TangentAsTwoSolution ==
    C10_Tangent =>
        sres = Sub2Solution(sp, sq, sk, sk2, Sub2c(sp, sq, sk, sk2, 0))

====
